---- MODULE Spec2Model ----
(***************************************************************************)
(* Service registry of assist-by/abready.                                  *)
(*                                                                         *)
(* src/main.go holds two evolutions of the server:                         *)
(*   - the in-memory variant (lines 1-164): a map guarded by servicesMu;   *)
(*   - the Redis-backed variant (lines 166-489): records are string keys   *)
(*     of a Redis store, the set all:services indexes their names, a Kafka *)
(*     consumer registers services, and updateService / healthCheck run    *)
(*     inside WATCH ... MULTI/EXEC optimistic transactions.                *)
(*                                                                         *)
(* Spec is the Redis-backed variant with every store call succeeding at    *)
(* the transport level; FaultSpec adds the store-error branches; MemSpec   *)
(* is the in-memory variant.                                               *)
(*                                                                         *)
(* Service names are drawn from names other than the literal key           *)
(* "all:services": the records and the index set are modelled as separate  *)
(* objects, which is what Redis gives for every other name.                *)
(***************************************************************************)
EXTENDS Integers, Sequences, FiniteSets, TLC

\* ---------------------------------------------------------------- bounds
MaxMsgs  == 2      \* messages the consumer reads from the registration topic
MaxClock == 1      \* times the reading of time.Now() changes

Procs    == {1, 2}                \* HTTP requests of the Redis-backed variant
MProcs   == {1, 2, 3}             \* HTTP requests of the in-memory variant
Names    == {"a"}                 \* path parameters (:name is never empty)
Keys     == {"", "a", "b"}        \* keys a record can be stored under

\* ------------------------------------------------------- wire and records
\* A payload that json.Unmarshal / ShouldBindJSON rejects.
Malformed == <<"{">>
\* The payloads that decode, <<name, address>>: two that differ in name and
\* in address, one with an empty address, one with an empty name.
Payloads  == {<<"a", "x">>, <<"b", "y">>, <<"a", "">>, <<"", "x">>}
Bodies    == Payloads \cup {Malformed}

\* redis.Nil: the key holds nothing.
Nil == <<>>

\* lib.Service after decoding a payload: LastHeartbeat is the zero time.
Bind(body) == [Name |-> body[1], Address |-> body[2], LastHeartbeat |-> 0]

\* json.Marshal(service): the stored string, field by field.
Marshal(s) == <<"name", s.Name, "address", s.Address, "lastHeartbeat", s.LastHeartbeat>>

\* json.Unmarshal(serviceJSON, &service).
Unmarshal(j) == [Name |-> j[2], Address |-> j[4], LastHeartbeat |-> j[6]]

\* validateService: nil (TRUE) iff name and address are non-empty.
validateService(s) == s.Name # "" /\ s.Address # ""

\* ------------------------------------------------------------------ state
VARIABLES
    store,      \* Redis string keys: name -> stored JSON, or Nil
    index,      \* Redis set all:services
    clock,      \* time.Now()
    offset,     \* number of messages the consumer has read
    cpc,        \* consumer: "read" | "set" | "sadd"
    cjson,      \* consumer: serviceJSON of the last message decoded
    dup,        \* consumer: the message in hand repeats the one before it
    req,        \* per HTTP request: handler, position, locals, response
    services,   \* in-memory variant: the map, name -> pointer (0: no entry)
    heap,       \* in-memory variant: the lib.Service each request allocated
    mreq        \* in-memory variant: per HTTP request

vars == <<store, index, clock, offset, cpc, cjson, dup, req, services, heap, mreq>>

memVars   == <<services, heap, mreq>>
redisVars == <<store, index, offset, cpc, cjson, dup, req>>

\* A request's fields.  Besides the handler's locals:
\*   wseq  modifications of key `name` since this request's WATCH, counted
\*         up to 3 (Redis refuses EXEC unless there was none);
\*   chg   key `name` was modified since this request read it;
\*   reg   the consumer wrote key `name` after this request's Del;
\*   ptr   in-memory getService: the pointer it looked up.
Idle == [op |-> "none", pc |-> "idle", name |-> "", body |-> <<>>, json |-> <<>>,
         wseq |-> 0, chg |-> FALSE, reg |-> FALSE, status |-> 0,
         todo |-> {}, got |-> {}, ptr |-> 0]

Init ==
    /\ store = [k \in Keys |-> Nil]
    /\ index = {}
    /\ clock = 1
    /\ offset = 0
    /\ cpc = "read"
    /\ cjson = <<>>
    /\ dup = FALSE
    /\ req = [r \in Procs |-> Idle]
    /\ services = [k \in Keys |-> 0]
    /\ heap = [r \in MProcs |-> Nil]
    /\ mreq = [r \in MProcs |-> Idle]

\* c.JSON(code, ...); return.  The locals die with the request; what is
\* kept is what the client saw, (wseq, reg) what happened to the key, and
\* the record a heartbeat tried to write.
Respond(q, code) ==
    [q EXCEPT !.pc = "done", !.status = code, !.chg = FALSE, !.todo = {},
              !.json = IF q.op = "health" /\ code \in {200, 409} THEN @ ELSE <<>>,
              !.wseq = IF q.op = "update" /\ code \in {200, 409} THEN @ ELSE 0]

\* Requests are interchangeable: they take the slots in order.
Free(r) == req[r].pc = "idle" /\ \A p \in Procs : p < r => req[p].pc # "idle"

\* The request holds a WATCH on its key.
Watching(q) == q.op \in {"update", "health"} /\ q.pc \in {"exists", "get", "exec"}

\* The request's wseq is still counted: it watches, or it is an update that
\* reached its EXEC.
Counting(q) == Watching(q) \/ (q.op = "update" /\ q.status \in {200, 409})

\* Key k is modified (SET, or DEL of an existing key) by writer w, a request
\* or 0 for the consumer: what every other request observes of it.
Touched(rq, k, w) ==
    [r \in Procs |->
        IF r = w \/ rq[r].name # k THEN rq[r]
        ELSE [rq[r] EXCEPT
                !.wseq = IF Counting(rq[r]) /\ @ < 3 THEN @ + 1 ELSE @,
                !.chg  = IF rq[r].pc = "exec" THEN TRUE ELSE @,
                !.reg  = IF rq[r].op = "delete" /\ rq[r].pc \in {"srem", "done"}
                            /\ rq[r].status \in {0, 200} /\ w = 0
                         THEN TRUE ELSE @]]

\* time.Now() advances.
Tick ==
    /\ clock < 1 + MaxClock
    /\ clock' = clock + 1
    /\ UNCHANGED <<redisVars, memVars>>

\* --------------------------------------------------- ingestion consumer
\* (mutant) a consumer whose loop ends at a message it cannot decode.
ConsumerReadBreak(msg, ok) ==
    /\ cpc = "read"
    /\ offset < MaxMsgs
    /\ IF ~ok
       THEN UNCHANGED <<offset, cpc, cjson, dup>>
       ELSE /\ offset' = offset + 1
            /\ IF msg = Malformed
               THEN cpc' = "stopped" /\ UNCHANGED <<cjson, dup>>
               ELSE /\ cjson' = Marshal([Bind(msg) EXCEPT !.LastHeartbeat = clock])
                    /\ dup' = (cjson # <<>> /\ Unmarshal(cjson).Name = msg[1]
                                            /\ Unmarshal(cjson).Address = msg[2])
                    /\ cpc' = "set"
    /\ UNCHANGED <<store, index, clock, req, memVars>>

\* registerService, lines 246-265: read a message, decode it, stamp it,
\* encode it.  ok = FALSE is reader.ReadMessage returning an error.
ConsumerRead(msg, ok) ==
    /\ cpc = "read"
    /\ offset < MaxMsgs
    /\ IF ~ok
       THEN UNCHANGED <<offset, cpc, cjson, dup>>
       ELSE /\ offset' = offset + 1
            /\ IF msg = Malformed
               THEN UNCHANGED <<cpc, cjson, dup>>
               ELSE /\ cjson' = Marshal([Bind(msg) EXCEPT !.LastHeartbeat = clock])
                    /\ dup' = (cjson # <<>> /\ Unmarshal(cjson).Name = msg[1]
                                            /\ Unmarshal(cjson).Address = msg[2])
                    /\ cpc' = "set"
    /\ UNCHANGED <<store, index, clock, req, memVars>>

\* (mutant) SETNX instead of SET: an existing record is kept.
ConsumerSetNX(ok) ==
    /\ cpc = "set"
    /\ LET k == Unmarshal(cjson).Name IN
       IF ok
       THEN /\ store' = [store EXCEPT ![k] = IF @ = Nil THEN cjson ELSE @]
            /\ req' = IF store[k] = Nil THEN Touched(req, k, 0) ELSE req
            /\ cpc' = "sadd"
       ELSE /\ cpc' = "read"
            /\ UNCHANGED <<store, req>>
    /\ UNCHANGED <<index, clock, offset, cjson, dup, memVars>>

\* registerService, lines 267-271: redisClient.Set(ctx, service.Name, serviceJSON, 0)
ConsumerSet(ok) ==
    /\ cpc = "set"
    /\ LET k == Unmarshal(cjson).Name IN
       IF ok
       THEN /\ store' = [store EXCEPT ![k] = cjson]
            /\ req' = Touched(req, k, 0)
            /\ cpc' = "sadd"
       ELSE /\ cpc' = "read"
            /\ UNCHANGED <<store, req>>
    /\ UNCHANGED <<index, clock, offset, cjson, dup, memVars>>

\* registerService, lines 273-279: redisClient.SAdd(ctx, "all:services", service.Name)
ConsumerSAdd(ok) ==
    /\ cpc = "sadd"
    /\ index' = IF ok THEN index \cup {Unmarshal(cjson).Name} ELSE index
    /\ cpc' = "read"
    /\ UNCHANGED <<store, clock, offset, cjson, dup, req, memVars>>

\* ------------------------------------------------- updateService (Redis)
\* lines 286-299: bind the payload, validate it, then WATCH name.
UpdateStart(r, name, body) ==
    /\ Free(r)
    /\ LET q == [req[r] EXCEPT !.op = "update", !.name = name, !.body = body] IN
       req' = [req EXCEPT ![r] =
                 IF body = Malformed THEN Respond(q, 400)
                 ELSE IF ~validateService(Bind(body)) THEN Respond(q, 400)
                 ELSE [q EXCEPT !.pc = "exists"]]
    /\ UNCHANGED <<store, index, clock, offset, cpc, cjson, dup, memVars>>

\* (mutant) the existence check is skipped.
UpdateExistsNoCheck(r, ok) ==
    /\ req[r].op = "update" /\ req[r].pc = "exists"
    /\ LET q == req[r] IN
       req' = [req EXCEPT ![r] =
                 IF ~ok THEN Respond(q, 500)
                 ELSE [q EXCEPT !.pc = "exec",
                                !.json = Marshal([Bind(q.body) EXCEPT !.LastHeartbeat = clock])]]
    /\ UNCHANGED <<store, index, clock, offset, cpc, cjson, dup, memVars>>

\* lines 300-312: redisClient.Exists, stamp LastHeartbeat, json.Marshal.
UpdateExists(r, ok) ==
    /\ req[r].op = "update" /\ req[r].pc = "exists"
    /\ LET q == req[r] IN
       req' = [req EXCEPT ![r] =
                 IF ~ok THEN Respond(q, 500)
                 ELSE IF store[q.name] = Nil THEN Respond(q, 404)
                 ELSE [q EXCEPT !.pc = "exec",
                                !.json = Marshal([Bind(q.body) EXCEPT !.LastHeartbeat = clock])]]
    /\ UNCHANGED <<store, index, clock, offset, cpc, cjson, dup, memVars>>

\* (mutant) EXEC that never refuses: the write goes through whatever
\* happened to the watched key.
TxPipelinedNoWatch(r, ok) ==
    LET q == req[r] IN
    IF ~ok
    THEN /\ req' = [req EXCEPT ![r] = Respond(q, 500)]
         /\ UNCHANGED store
    ELSE /\ store' = [store EXCEPT ![q.name] = q.json]
         /\ req' = [Touched(req, q.name, r) EXCEPT
                      ![r] = Respond([q EXCEPT !.wseq = IF @ < 3 THEN @ + 1 ELSE @], 200)]

\* (mutant) EXEC that refuses only when the key is gone.
TxPipelinedExistsOnly(r, ok) ==
    LET q == req[r] IN
    IF ~ok
    THEN /\ req' = [req EXCEPT ![r] = Respond(q, 500)]
         /\ UNCHANGED store
    ELSE IF store[q.name] = Nil
    THEN /\ req' = [req EXCEPT ![r] = Respond(q, 409)]
         /\ UNCHANGED store
    ELSE /\ store' = [store EXCEPT ![q.name] = q.json]
         /\ req' = [Touched(req, q.name, r) EXCEPT
                      ![r] = Respond([q EXCEPT !.wseq = IF @ < 3 THEN @ + 1 ELSE @], 200)]

\* (mutant) a transaction that is run again from WATCH when EXEC is refused.
TxPipelinedRetry(r, ok) ==
    LET q == req[r] IN
    IF ~ok
    THEN /\ req' = [req EXCEPT ![r] = Respond(q, 500)]
         /\ UNCHANGED store
    ELSE IF q.wseq # 0
    THEN /\ req' = [req EXCEPT ![r] = [q EXCEPT !.pc = "exists", !.wseq = 0,
                                                !.chg = FALSE, !.json = <<>>]]
         /\ UNCHANGED store
    ELSE /\ store' = [store EXCEPT ![q.name] = q.json]
         /\ req' = [Touched(req, q.name, r) EXCEPT
                      ![r] = Respond([q EXCEPT !.wseq = 1], 200)]

\* tx.TxPipelined: MULTI / SET name json / EXEC.  EXEC is refused with
\* redis.TxFailedErr when the watched key was modified after WATCH.
TxPipelined(r, ok) ==
    LET q == req[r] IN
    IF ~ok
    THEN /\ req' = [req EXCEPT ![r] = Respond(q, 500)]
         /\ UNCHANGED store
    ELSE IF q.wseq # 0
    THEN /\ req' = [req EXCEPT ![r] = Respond(q, 409)]
         /\ UNCHANGED store
    ELSE /\ store' = [store EXCEPT ![q.name] = q.json]
         /\ req' = [Touched(req, q.name, r) EXCEPT
                      ![r] = Respond([q EXCEPT !.wseq = 1], 200)]

\* lines 314-331: the commit and the response.
UpdateExec(r, ok) ==
    /\ req[r].op = "update" /\ req[r].pc = "exec"
    /\ TxPipelined(r, ok)
    /\ UNCHANGED <<index, clock, offset, cpc, cjson, dup, memVars>>

\* --------------------------------------------------- healthCheck (Redis)
\* lines 416-418: WATCH name.
HealthStart(r, name) ==
    /\ Free(r)
    /\ req' = [req EXCEPT ![r] = [@ EXCEPT !.op = "health", !.name = name,
                                           !.pc = "exists"]]
    /\ UNCHANGED <<store, index, clock, offset, cpc, cjson, dup, memVars>>

\* lines 419-425: tx.Exists.
HealthExists(r, ok) ==
    /\ req[r].op = "health" /\ req[r].pc = "exists"
    /\ LET q == req[r] IN
       req' = [req EXCEPT ![r] =
                 IF ~ok THEN Respond(q, 500)
                 ELSE IF store[q.name] = Nil THEN Respond(q, 404)
                 ELSE [q EXCEPT !.pc = "get"]]
    /\ UNCHANGED <<store, index, clock, offset, cpc, cjson, dup, memVars>>

\* (mutant) the record is rebuilt around the path name instead of being
\* decoded whole.
HealthGetFromPath(r, ok) ==
    /\ req[r].op = "health" /\ req[r].pc = "get"
    /\ LET q == req[r] IN
       req' = [req EXCEPT ![r] =
                 IF ~ok \/ store[q.name] = Nil THEN Respond(q, 500)
                 ELSE [q EXCEPT !.pc = "exec",
                                !.json = Marshal([Name |-> q.name,
                                                  Address |-> Unmarshal(store[q.name]).Address,
                                                  LastHeartbeat |-> clock])]]
    /\ UNCHANGED <<store, index, clock, offset, cpc, cjson, dup, memVars>>

\* lines 427-441: tx.Get, json.Unmarshal, stamp LastHeartbeat, json.Marshal.
\* A key deleted since tx.Exists makes tx.Get return redis.Nil, which is
\* neither TxFailedErr nor "service not found": the response is 500.
HealthGet(r, ok) ==
    /\ req[r].op = "health" /\ req[r].pc = "get"
    /\ LET q == req[r] IN
       req' = [req EXCEPT ![r] =
                 IF ~ok \/ store[q.name] = Nil THEN Respond(q, 500)
                 ELSE [q EXCEPT !.pc = "exec",
                                !.json = Marshal([Unmarshal(store[q.name])
                                                    EXCEPT !.LastHeartbeat = clock])]]
    /\ UNCHANGED <<store, index, clock, offset, cpc, cjson, dup, memVars>>

\* lines 443-460: the commit and the response.
HealthExec(r, ok) ==
    /\ req[r].op = "health" /\ req[r].pc = "exec"
    /\ TxPipelined(r, ok)
    /\ UNCHANGED <<index, clock, offset, cpc, cjson, dup, memVars>>

\* (mutant) deleteService without the existence check.
DeleteStartNoCheck(r, name, ok) ==
    /\ Free(r)
    /\ LET q == [req[r] EXCEPT !.op = "delete", !.name = name] IN
       req' = [req EXCEPT ![r] =
                 IF ~ok THEN Respond(q, 500)
                 ELSE [q EXCEPT !.pc = "del"]]
    /\ UNCHANGED <<store, index, clock, offset, cpc, cjson, dup, memVars>>

\* ------------------------------------------------- deleteService (Redis)
\* lines 336-346: redisClient.Exists.
DeleteStart(r, name, ok) ==
    /\ Free(r)
    /\ LET q == [req[r] EXCEPT !.op = "delete", !.name = name] IN
       req' = [req EXCEPT ![r] =
                 IF ~ok THEN Respond(q, 500)
                 ELSE IF store[name] = Nil THEN Respond(q, 404)
                 ELSE [q EXCEPT !.pc = "del"]]
    /\ UNCHANGED <<store, index, clock, offset, cpc, cjson, dup, memVars>>

\* (mutant) the record removal is left out.
DeleteDelSkipped(r, ok) ==
    /\ req[r].op = "delete" /\ req[r].pc = "del"
    /\ req' = [req EXCEPT ![r] = IF ok THEN [@ EXCEPT !.pc = "srem"] ELSE Respond(@, 500)]
    /\ UNCHANGED <<store, index, clock, offset, cpc, cjson, dup, memVars>>

\* (mutant) the first step of deleteService removes the index entry.
DeleteDelSRemFirst(r, ok) ==
    /\ req[r].op = "delete" /\ req[r].pc = "del"
    /\ index' = IF ok THEN index \ {req[r].name} ELSE index
    /\ req' = [req EXCEPT ![r] = IF ok THEN [@ EXCEPT !.pc = "srem"] ELSE Respond(@, 500)]
    /\ UNCHANGED <<store, clock, offset, cpc, cjson, dup, memVars>>

\* lines 348-352: redisClient.Del.  Deleting a key that is already gone
\* modifies nothing.
DeleteDel(r, ok) ==
    /\ req[r].op = "delete" /\ req[r].pc = "del"
    /\ LET q == req[r] IN
       IF ~ok
       THEN /\ req' = [req EXCEPT ![r] = Respond(q, 500)]
            /\ UNCHANGED store
       ELSE /\ store' = [store EXCEPT ![q.name] = Nil]
            /\ req' = [(IF store[q.name] = Nil THEN req ELSE Touched(req, q.name, r))
                         EXCEPT ![r] = [q EXCEPT !.pc = "srem"]]
    /\ UNCHANGED <<index, clock, offset, cpc, cjson, dup, memVars>>

\* lines 354-360: redisClient.SRem(ctx, "all:services", name).
DeleteSRem(r, ok) ==
    /\ req[r].op = "delete" /\ req[r].pc = "srem"
    /\ index' = IF ok THEN index \ {req[r].name} ELSE index
    /\ req' = [req EXCEPT ![r] = Respond(@, IF ok THEN 200 ELSE 500)]
    /\ UNCHANGED <<store, clock, offset, cpc, cjson, dup, memVars>>

\* ---------------------------------------------------- getService (Redis)
\* lines 395-411: the status getService answers with when redisClient.Get
\* gives v (ok = FALSE: the call fails).
GetStatus(v, ok) ==
    IF ok /\ v = Nil THEN 404
    ELSE IF ~ok THEN 500
    ELSE 200

\* lines 392-412.
GetService(r, name, ok) ==
    /\ Free(r)
    /\ req' = [req EXCEPT ![r] =
                 Respond([@ EXCEPT !.op = "get", !.name = name],
                         GetStatus(store[name], ok))]
    /\ UNCHANGED <<store, index, clock, offset, cpc, cjson, dup, memVars>>

\* -------------------------------------------------- listServices (Redis)
\* lines 372-386: of the names in idx, those whose record is read from st.
ListNames(idx, st) == {n \in idx : st[n] # Nil}

\* lines 365-371: redisClient.SMembers(ctx, "all:services").
ListSMembers(r, ok) ==
    /\ Free(r)
    /\ LET q == [req[r] EXCEPT !.op = "list"] IN
       req' = [req EXCEPT ![r] =
                 IF ~ok THEN Respond(q, 500)
                 ELSE IF index = {} THEN Respond(q, 200)
                 ELSE [q EXCEPT !.pc = "gets", !.todo = index]]
    /\ UNCHANGED <<store, index, clock, offset, cpc, cjson, dup, memVars>>

\* (mutant) a listing that gives up at the first name it cannot read.
ListGetStrict(r, n, ok) ==
    /\ req[r].op = "list" /\ req[r].pc = "gets"
    /\ n \in req[r].todo
    /\ LET q    == req[r]
           got  == (IF ok THEN ListNames({n}, store) ELSE {}) \cup q.got
           q2   == [q EXCEPT !.todo = @ \ {n}, !.got = got]
       IN req' = [req EXCEPT ![r] = IF got = q.got THEN Respond(q2, 500)
                                    ELSE IF q2.todo = {} THEN Respond(q2, 200)
                                    ELSE q2]
    /\ UNCHANGED <<store, index, clock, offset, cpc, cjson, dup, memVars>>

\* lines 372-388: one turn of the loop, redisClient.Get of one name; a
\* name whose read fails is skipped; after the last name, 200.
ListGet(r, n, ok) ==
    /\ req[r].op = "list" /\ req[r].pc = "gets"
    /\ n \in req[r].todo
    /\ LET q    == req[r]
           got  == (IF ok THEN ListNames({n}, store) ELSE {}) \cup q.got
           q2   == [q EXCEPT !.todo = @ \ {n}, !.got = got]
       IN req' = [req EXCEPT ![r] = IF q2.todo = {} THEN Respond(q2, 200) ELSE q2]
    /\ UNCHANGED <<store, index, clock, offset, cpc, cjson, dup, memVars>>

\* ------------------------------------------------------ in-memory variant
\* Each handler's critical section under servicesMu is one step.
MFree(r) == mreq[r].pc = "idle" /\ \A p \in MProcs : p < r => mreq[p].pc # "idle"

\* The record behind pointer p.
Deref(p) == IF p = 0 THEN Nil ELSE heap[p]

\* lines 34-53: bind, validate, stamp, services[service.Name] = &service.
MemRegister(r, body) ==
    /\ MFree(r)
    /\ LET q == [mreq[r] EXCEPT !.op = "register", !.body = body] IN
       IF body = Malformed \/ ~validateService(Bind(body))
       THEN /\ mreq' = [mreq EXCEPT ![r] = Respond(q, 400)]
            /\ UNCHANGED <<services, heap>>
       ELSE /\ heap' = [heap EXCEPT ![r] = [Bind(body) EXCEPT !.LastHeartbeat = clock]]
            /\ services' = [services EXCEPT ![body[1]] = r]
            /\ mreq' = [mreq EXCEPT ![r] = Respond(q, 200)]
    /\ UNCHANGED <<clock, redisVars>>

\* lines 56-81: bind; validate, whose failure writes the 400 response but
\* does not return; then under the lock 404, or stamp and
\* services[name] = &service.  A status already written is the one sent.
MemUpdate(r, name, body) ==
    /\ MFree(r)
    /\ LET q       == [mreq[r] EXCEPT !.op = "update", !.name = name, !.body = body]
           invalid == ~validateService(Bind(body))
       IN
       IF body = Malformed
       THEN /\ mreq' = [mreq EXCEPT ![r] = Respond(q, 400)]
            /\ UNCHANGED <<services, heap>>
       ELSE IF services[name] = 0
       THEN /\ mreq' = [mreq EXCEPT ![r] = Respond(q, IF invalid THEN 400 ELSE 404)]
            /\ UNCHANGED <<services, heap>>
       ELSE /\ heap' = [heap EXCEPT ![r] = [Bind(body) EXCEPT !.LastHeartbeat = clock]]
            /\ services' = [services EXCEPT ![name] = r]
            /\ mreq' = [mreq EXCEPT ![r] = Respond(q, IF invalid THEN 400 ELSE 200)]
    /\ UNCHANGED <<clock, redisVars>>

\* lines 84-97.
MemDelete(r, name) ==
    /\ MFree(r)
    /\ LET q == [mreq[r] EXCEPT !.op = "delete", !.name = name] IN
       IF services[name] = 0
       THEN /\ mreq' = [mreq EXCEPT ![r] = Respond(q, 404)]
            /\ UNCHANGED services
       ELSE /\ services' = [services EXCEPT ![name] = 0]
            /\ mreq' = [mreq EXCEPT ![r] = Respond(q, 200)]
    /\ UNCHANGED <<heap, clock, redisVars>>

\* lines 100-105: the whole map is serialized under the read lock.
MemList(r) ==
    /\ MFree(r)
    /\ mreq' = [mreq EXCEPT ![r] =
                  Respond([@ EXCEPT !.op = "list", !.got = {k \in Keys : services[k] # 0}], 200)]
    /\ UNCHANGED <<services, heap, clock, redisVars>>

\* lines 108-118: the lookup under the read lock.
MemGetLookup(r, name) ==
    /\ MFree(r)
    /\ LET q == [mreq[r] EXCEPT !.op = "get", !.name = name] IN
       mreq' = [mreq EXCEPT ![r] =
                  IF services[name] = 0 THEN Respond(q, 404)
                  ELSE [q EXCEPT !.pc = "write", !.ptr = services[name]]]
    /\ UNCHANGED <<services, heap, clock, redisVars>>

\* line 120: c.JSON(http.StatusOK, service), after the lock was released.
MemGetWrite(r) ==
    /\ mreq[r].op = "get" /\ mreq[r].pc = "write"
    /\ mreq' = [mreq EXCEPT ![r] =
                  [Respond(@, 200) EXCEPT !.json = Marshal(Deref(mreq[r].ptr)), !.ptr = 0]]
    /\ UNCHANGED <<services, heap, clock, redisVars>>

\* lines 124-137: under the lock, service.LastHeartbeat = time.Now() in place.
MemHealth(r, name) ==
    /\ MFree(r)
    /\ LET q == [mreq[r] EXCEPT !.op = "health", !.name = name] IN
       IF services[name] = 0
       THEN /\ mreq' = [mreq EXCEPT ![r] = Respond(q, 404)]
            /\ UNCHANGED heap
       ELSE /\ heap' = [heap EXCEPT ![services[name]] = [@ EXCEPT !.LastHeartbeat = clock]]
            /\ mreq' = [mreq EXCEPT ![r] = Respond(q, 200)]
    /\ UNCHANGED <<services, clock, redisVars>>

\* ---------------------------------------------------------- specifications
\* The steps of the consumer and of the handlers, every store call succeeding.
Steps ==
    \/ \E msg \in Bodies : ConsumerRead(msg, TRUE)
    \/ ConsumerSet(TRUE)
    \/ ConsumerSAdd(TRUE)
    \/ \E r \in Procs, name \in Names, body \in Bodies : UpdateStart(r, name, body)
    \/ \E r \in Procs : UpdateExists(r, TRUE)
    \/ \E r \in Procs : UpdateExec(r, TRUE)
    \/ \E r \in Procs, name \in Names : HealthStart(r, name)
    \/ \E r \in Procs : HealthExists(r, TRUE)
    \/ \E r \in Procs : HealthGet(r, TRUE)
    \/ \E r \in Procs : HealthExec(r, TRUE)
    \/ \E r \in Procs, name \in Names : DeleteStart(r, name, TRUE)
    \/ \E r \in Procs : DeleteDel(r, TRUE)
    \/ \E r \in Procs : DeleteSRem(r, TRUE)
    \/ \E r \in Procs, name \in Names : GetService(r, name, TRUE)
    \/ \E r \in Procs : ListSMembers(r, TRUE)
    \/ \E r \in Procs, n \in Keys : ListGet(r, n, TRUE)

Next == Tick \/ Steps

Spec == Init /\ [][Next]_vars

\* The store-error branches: a Redis or Kafka call returns an error.
Fault ==
    \/ \E msg \in Bodies : ConsumerRead(msg, FALSE)
    \/ ConsumerSet(FALSE)
    \/ ConsumerSAdd(FALSE)
    \/ \E r \in Procs : UpdateExists(r, FALSE)
    \/ \E r \in Procs : UpdateExec(r, FALSE)
    \/ \E r \in Procs : HealthExists(r, FALSE)
    \/ \E r \in Procs : HealthGet(r, FALSE)
    \/ \E r \in Procs : HealthExec(r, FALSE)
    \/ \E r \in Procs, name \in Names : DeleteStart(r, name, FALSE)
    \/ \E r \in Procs : DeleteDel(r, FALSE)
    \/ \E r \in Procs : DeleteSRem(r, FALSE)
    \/ \E r \in Procs, name \in Names : GetService(r, name, FALSE)
    \/ \E r \in Procs : ListSMembers(r, FALSE)
    \/ \E r \in Procs, n \in Keys : ListGet(r, n, FALSE)

FaultNext == Next \/ Fault

FaultSpec == Init /\ [][FaultNext]_vars

\* main, line 468, `go startKafkaConsumer()`, and lines 219-229: the
\* consumer loop runs in its own goroutine for the life of the process, and
\* the topic delivers its messages: a step of the loop that can be taken is
\* eventually taken.
Consumer ==
    \/ \E msg \in Bodies : ConsumerRead(msg, TRUE)
    \/ \E ok \in BOOLEAN : ConsumerSet(ok)
    \/ \E ok \in BOOLEAN : ConsumerSAdd(ok)

\* The same steps while the reading of time.Now() stays what it is.  No
\* step is enabled or disabled by a timestamp, so records, index and control
\* states are those of FaultSpec.
StillNext == Steps \/ Fault

StillSpec == Init /\ [][StillNext]_vars

LiveSpec == Init /\ [][StillNext]_vars /\ WF_vars(Consumer)

\* The in-memory variant.
MemNext ==
    \/ Tick
    \/ \E r \in MProcs, body \in Bodies : MemRegister(r, body)
    \/ \E r \in MProcs, name \in Names, body \in Bodies : MemUpdate(r, name, body)
    \/ \E r \in MProcs, name \in Names : MemDelete(r, name)
    \/ \E r \in MProcs : MemList(r)
    \/ \E r \in MProcs, name \in Names : MemGetLookup(r, name)
    \/ \E r \in MProcs : MemGetWrite(r)
    \/ \E r \in MProcs, name \in Names : MemHealth(r, name)

MemSpec == Init /\ [][MemNext]_vars

\* ------------------------------------------------------------ properties
\* No request and no consumer iteration is in flight.
Quiescent == cpc = "read" /\ \A r \in Procs : req[r].pc \in {"idle", "done"}

\* The payload decodes and fails validateService.
Invalid(body) == body # Malformed /\ ~validateService(Bind(body))

\* r1 and r2 are two finished updates of one name with different payloads
\* that both reached EXEC, watched the same version of the key (equal wseq)
\* and were the only writers of the key since (wseq counts their commits
\* and nothing else).
Raced(r1, r2) ==
    /\ r1 # r2
    /\ req[r1].op = "update" /\ req[r2].op = "update"
    /\ req[r1].name = req[r2].name
    /\ req[r1].body # req[r2].body
    /\ req[r1].status \in {200, 409} /\ req[r2].status \in {200, 409}
    /\ req[r1].wseq = req[r2].wseq
    /\ req[r1].wseq = Cardinality({r \in {r1, r2} : req[r].status = 200})

\* C1: of two updates of the same name with different payloads that watched
\* the same version of the key, exactly one answers 200 and the other 409,
\* and the key then holds the name and address of the winner's payload.
C1_NoLostUpdate ==
    \A r1, r2 \in Procs :
        (Raced(r1, r2) /\ req[r1].status >= req[r2].status) =>
            /\ req[r1].status = 409 /\ req[r2].status = 200
            /\ store[req[r2].name] # Nil
            /\ Unmarshal(store[req[r2].name]).Name = req[r2].body[1]
            /\ Unmarshal(store[req[r2].name]).Address = req[r2].body[2]

C1_Witness ==
    \E r1, r2 \in Procs : Raced(r1, r2) /\ req[r1].status = 409 /\ req[r2].status = 200

\* C2: when nothing is in flight, a key holds a record iff its name is in
\* the index set.
C2_RecordIndexAgreement ==
    Quiescent => \A k \in Keys : (store[k] # Nil) <=> (k \in index)

\* C3: the step that ends a heartbeat's or an update's transaction commits
\* only if the key was not modified since the transaction read it, and
\* answers 409 and writes nothing if it was; a heartbeat that commits
\* overwrites a record that still has the name and address it read.
C3_CommitOnlyIfUnchanged ==
    [][\A r \in Procs :
         (req[r].pc = "exec" /\ req'[r].pc = "done") =>
            /\ req[r].chg => (req'[r].status = 409 /\ store' = store)
            /\ req'[r].status = 200 =>
                 /\ ~req[r].chg
                 /\ store[req[r].name] # Nil
                 /\ req[r].op = "health" =>
                      /\ Unmarshal(store[req[r].name]).Name = Unmarshal(req[r].json).Name
                      /\ Unmarshal(store[req[r].name]).Address = Unmarshal(req[r].json).Address
      ]_vars

\* A heartbeat read one address, the record was then overwritten with
\* another, and the heartbeat ended in 409 with the new address in place.
C3_Witness ==
    \E r \in Procs :
        /\ req[r].op = "health" /\ req[r].status = 409
        /\ store[req[r].name] # Nil
        /\ Unmarshal(store[req[r].name]).Address # Unmarshal(req[r].json).Address

\* C4: every stored record has a non-empty name and a non-empty address.
C4_StoredRecordsValid ==
    \A k \in Keys : store[k] # Nil => validateService(Unmarshal(store[k]))

\* C5: (in-memory variant) a register or update request whose payload has
\* an empty name or address is answered 400 and leaves the map and the
\* records as they were.
C5_ValidationGate ==
    [][\A r \in MProcs :
         (mreq[r].pc = "idle" /\ mreq'[r].op \in {"register", "update"}
            /\ Invalid(mreq'[r].body)) =>
            (mreq'[r].status = 400 /\ services' = services /\ heap' = heap)
      ]_vars

\* C6: after a successful update of path name k the record under key k has
\* name k.
C6_UpdateKeepsName ==
    [][\A r \in Procs :
         (req[r].op = "update" /\ req[r].pc = "exec" /\ req'[r].status = 200) =>
            Unmarshal(store'[req[r].name]).Name = req[r].name
      ]_vars

\* C7: a key that holds nothing comes to hold a record only by the
\* consumer's Set; and an update or heartbeat that finds its name absent
\* answers 404 and writes nothing.
C7_NoCreateByUpdate ==
    [][/\ \A k \in Keys :
            (store[k] = Nil /\ store'[k] # Nil) =>
                (cpc = "set" /\ cpc' = "sadd" /\ Unmarshal(cjson).Name = k)
       /\ \A r \in Procs :
            (req[r].pc = "exists" /\ store[req[r].name] = Nil /\ req'[r].pc # "exists") =>
                (req'[r].status = 404 /\ store' = store)
      ]_vars

\* An update or heartbeat passed its existence check, a delete removed the
\* record, and the commit was refused: the key holds nothing.
C7_Witness ==
    \E r \in Procs :
        /\ req[r].op \in {"update", "health"} /\ req[r].status = 409
        /\ store[req[r].name] = Nil

\* C8: once a delete has answered 200 and the consumer has written no
\* registration of that name after the delete removed the record,
\* getService answers 404 for the name and listServices does not return it;
\* and when nothing is in flight getService succeeds for every name
\* listServices returns.
C8_DeletedIsGone ==
    /\ \A r \in Procs :
         (req[r].op = "delete" /\ req[r].status = 200 /\ ~req[r].reg) =>
            /\ GetStatus(store[req[r].name], TRUE) = 404
            /\ req[r].name \notin ListNames(index, store)
    /\ Quiescent => \A n \in ListNames(index, store) : GetStatus(store[n], TRUE) = 200

C8_Witness ==
    \E r \in Procs :
        /\ req[r].op = "delete" /\ req[r].status = 200 /\ ~req[r].reg
        /\ offset > 0 /\ Quiescent

\* C9: the step by which a heartbeat commits leaves the record's name and
\* address, every other key and the index set as they were.
C9_HeartbeatFrame ==
    [][\A r \in Procs :
         (req[r].op = "health" /\ req[r].pc = "exec" /\ req'[r].status = 200) =>
            /\ store[req[r].name] # Nil /\ store'[req[r].name] # Nil
            /\ Unmarshal(store'[req[r].name]).Name = Unmarshal(store[req[r].name]).Name
            /\ Unmarshal(store'[req[r].name]).Address = Unmarshal(store[req[r].name]).Address
            /\ \A k \in Keys \ {req[r].name} : store'[k] = store[k]
            /\ index' = index
      ]_vars

\* A heartbeat committed while another key holds a record too.
C9_Witness ==
    \E r \in Procs :
        /\ req[r].op = "health" /\ req[r].status = 200
        /\ store[req[r].name] # Nil
        /\ \E k \in Keys \ {req[r].name} : store[k] # Nil

\* Only reads were requested over HTTP.
OnlyReads == \A r \in Procs : req[r].op \in {"none", "get", "list"}

\* C10: when the consumer has processed a registration that repeats the
\* one before it (same name and address), and no other writer acted, the
\* key holds one record with that name and address and the stamp of the
\* later delivery, and the name is in the index set.
C10_IdempotentCreation ==
    (cpc = "read" /\ dup /\ OnlyReads) =>
        /\ store[Unmarshal(cjson).Name] = cjson
        /\ Unmarshal(cjson).Name \in index
        /\ \A k \in Keys \ {Unmarshal(cjson).Name} :
              store[k] = Nil \/ Unmarshal(store[k]).Name # Unmarshal(cjson).Name

\* The second delivery was stamped later than the first.
C10_Witness ==
    cpc = "read" /\ dup /\ OnlyReads /\ Unmarshal(cjson).LastHeartbeat > 1

\* C11: when a heartbeat commits, the lastHeartbeat it stores is not
\* earlier than the one stored by any heartbeat of the same name that
\* committed before it.
C11_HeartbeatMonotone ==
    [][\A r, p \in Procs :
         (/\ req[r].op = "health" /\ req[r].pc = "exec" /\ req'[r].status = 200
          /\ p # r /\ req[p].op = "health" /\ req[p].status = 200
          /\ req[p].name = req[r].name) =>
            Unmarshal(req[p].json).LastHeartbeat
                <= Unmarshal(store'[req[r].name]).LastHeartbeat
      ]_vars

\* Two heartbeats of one name committed, with different stamps.
C11_Witness ==
    \E r, p \in Procs :
        /\ req[r].op = "health" /\ req[r].status = 200
        /\ req[p].op = "health" /\ req[p].status = 200
        /\ req[p].name = req[r].name
        /\ Unmarshal(req[p].json).LastHeartbeat < Unmarshal(req[r].json).LastHeartbeat

\* C12: a commit of updateService or healthCheck that is refused because the
\* watched key was written answers 409 at once, writes nothing and is the
\* handler's last step (a finished request takes no further step); a commit
\* whose key was not written since its WATCH succeeds and stores its record.
C12_ConflictSurfaced ==
    [][\A r \in Procs :
         /\ (req[r].op \in {"update", "health"} /\ req[r].pc = "exec"
               /\ req'[r].pc # "exec" /\ req[r].wseq # 0) =>
                (/\ req'[r].pc = "done" /\ req'[r].status = 409
                 /\ store' = store /\ index' = index)
         /\ (req[r].op \in {"update", "health"} /\ req[r].pc = "exec"
               /\ req'[r].pc # "exec" /\ req[r].wseq = 0) =>
                (/\ req'[r].pc = "done" /\ req'[r].status = 200
                 /\ store'[req[r].name] = req[r].json)
         /\ req[r].pc = "done" =>
                (req'[r].pc = "done" /\ req'[r].status = req[r].status)
      ]_vars

\* An update was refused with 409 after two writes of its name, and another
\* update of that name committed.
C12_Witness ==
    \E r, p \in Procs :
        /\ req[r].op = "update" /\ req[r].status = 409 /\ req[r].wseq >= 2
        /\ req[p].op = "update" /\ req[p].status = 200
        /\ req[p].name = req[r].name

\* C13: for every registration message the consumer attempts the index add
\* after the record write, whether or not the record write succeeded.
C13_BothWritesAttempted ==
    [][(cpc = "set" /\ cpc' # "set") => cpc' = "sadd"]_vars

\* Every record has an index entry.
NoOrphan == \A k \in Keys : store[k] # Nil => k \in index

\* C15: no step of deleteService, completed or failed, leaves a record
\* without an index entry where there was none before: a delete that stops
\* after any of its steps can only leave an index name without a record.
\* (A registration that writes the record again between the two steps is
\* the race of C2 and is set aside here.)
C15_RecordBeforeIndex ==
    [][\A r \in Procs :
         (req[r].op = "delete" /\ req[r].pc \in {"del", "srem"}
            /\ req'[r].pc # req[r].pc /\ ~req[r].reg /\ NoOrphan) => NoOrphan'
      ]_vars

\* A delete failed after removing the record: the index name is left over.
C15_Witness ==
    \E r \in Procs :
        /\ req[r].op = "delete" /\ req[r].status = 500
        /\ store[req[r].name] = Nil /\ req[r].name \in index

\* C16: a listing that obtained the index members answers 200 whatever the
\* reads of the records give, and each read adds to the result the name
\* read if its record was there and nothing otherwise.
C16_ListSkipsDangling ==
    [][\A r \in Procs :
         (req[r].op = "list" /\ req[r].pc = "gets" /\ req'[r] # req[r]) =>
            /\ req'[r].status = IF req'[r].pc = "done" THEN 200 ELSE 0
            /\ req[r].got \subseteq req'[r].got
            /\ req'[r].got \subseteq
                 req[r].got \cup ListNames(req[r].todo \ req'[r].todo, store)
      ]_vars

\* A listing answered 200 with some names while an index name without a
\* record was left out.
C16_Witness ==
    \E r \in Procs :
        /\ req[r].op = "list" /\ req[r].status = 200 /\ req[r].got # {}
        /\ \E n \in index : n \notin req[r].got /\ store[n] = Nil

\* C17: deleteService of a name that has no record answers 404 in its first
\* step, changes neither a record nor the index, and takes no further step.
C17_AbsentDeleteNoMutation ==
    [][\A r \in Procs :
         /\ (req[r].pc = "idle" /\ req'[r].op = "delete"
               /\ store[req'[r].name] = Nil) =>
                (/\ req'[r].pc = "done" /\ req'[r].status = 404
                 /\ store' = store /\ index' = index)
         /\ (req[r].op = "delete" /\ req[r].status = 404) => req'[r] = req[r]
      ]_vars

\* A delete answered 404 and the index name of the absent record is still
\* there.
C17_Witness ==
    \E r \in Procs :
        /\ req[r].op = "delete" /\ req[r].status = 404
        /\ store[req[r].name] = Nil /\ req[r].name \in index

\* C14: whatever the messages are and whichever store calls fail, the
\* consumer never goes back to a message it has read, and it ends up having
\* read and processed every message delivered.
C14_ConsumerProgress ==
    /\ [][offset' \in {offset, offset + 1}]_vars
    /\ <>[](offset = MaxMsgs /\ cpc = "read")

\* Every message was read and processed and none of them left a record or
\* an index name: each was malformed or met a failing store call.
C14_Witness ==
    /\ offset = MaxMsgs /\ cpc = "read"
    /\ NoOrphan /\ index = {}
    /\ \A r \in Procs : req[r].pc = "idle"

\* C18: (in-memory variant) when healthCheck assigns LastHeartbeat of a
\* record in place, no getService is between its lookup of that same record
\* and the end of its serialization, which it does after releasing
\* servicesMu.
C18_RecordAccessExcluded ==
    [][\A r, g \in MProcs :
         (/\ mreq[r].pc = "idle" /\ mreq'[r].op = "health" /\ mreq'[r].status = 200
          /\ mreq[g].op = "get" /\ mreq[g].pc = "write") =>
            mreq[g].ptr # services[mreq'[r].name]
      ]_vars

\* C19: a record that stays in the store never has its lastHeartbeat
\* replaced by an earlier one, whichever writer writes.
C19_StoredHeartbeatMonotone ==
    [][\A k \in Keys :
         (store[k] # Nil /\ store'[k] # Nil) =>
            Unmarshal(store[k]).LastHeartbeat <= Unmarshal(store'[k]).LastHeartbeat
      ]_vars

\* C20: of two deleteService requests of one name with no registration of
\* that name written after either removed the record, at most one answers
\* 200.
C20_DeletedAtMostOnce ==
    \A r, p \in Procs :
        (/\ r # p
         /\ req[r].op = "delete" /\ req[p].op = "delete"
         /\ req[r].name = req[p].name
         /\ ~req[r].reg /\ ~req[p].reg) =>
            ~(req[r].status = 200 /\ req[p].status = 200)

\* C19 (amended): a commit of updateService or healthCheck never replaces a
\* record by one with an earlier lastHeartbeat.
C19_CommitNeverLowersHeartbeat ==
    [][\A r \in Procs :
         (/\ req[r].op \in {"update", "health"} /\ req[r].pc = "exec"
          /\ req'[r].status = 200 /\ store[req[r].name] # Nil) =>
            Unmarshal(store[req[r].name]).LastHeartbeat
                <= Unmarshal(store'[req[r].name]).LastHeartbeat
      ]_vars

\* An update committed a record stamped after the first clock reading, and
\* the consumer holds a registration stamped at the first reading.
C19_Witness ==
    \E r \in Procs :
        /\ req[r].op = "update" /\ req[r].status = 200 /\ req[r].wseq = 1
        /\ Unmarshal(store[req[r].name]).LastHeartbeat > 1
        /\ cjson # <<>> /\ Unmarshal(cjson).LastHeartbeat = 1
====
